---- MODULE Spec2Model ----
(***************************************************************************)
(* Delivery-status synchronisation of the challan notification system.     *)
(*                                                                         *)
(*   backend/server.js     the webhook receiver, the in-memory status map, *)
(*                         the WebSocket fan-out and the query endpoints   *)
(*   frontend/src/App.tsx  the dashboard: the batch, the per-item and the  *)
(*                         whole-batch dispatch, the WebSocket handler     *)
(*                                                                         *)
(* Every handler of the two programs is one action.  JavaScript values     *)
(* that are missing (undefined, a field that is not there) are the value   *)
(* Absent.                                                                 *)
(***************************************************************************)
EXTENDS Naturals, Sequences, FiniteSets, Bags, TLC

\* ------------------------------------------------------------------ bounds

\* most status entries in the statuses array of one callback envelope
MaxStatuses == 1
\* connection handles the WebSocket server hands out
MaxObservers == 2
\* most challans one uploaded file yields
MaxItems == 2
\* most sends and whole-batch loops of the dashboard running at once
MaxRuns == 2
\* most messages in flight to the dashboard's socket
MaxWire == 2
\* most status entries of a callback some of whose sends raise
MaxFaultStatuses == 2

\* ---------------------------------------------------------------- alphabets

\* undefined: a missing field, a Map miss, a property JSON leaves out
Absent == "<undefined>"

\* provider message identifiers (opaque strings), in the order in which the
\* provider hands them out to the dashboard of this model
IdSeq == <<"wamid.1", "wamid.2">>

Ids == {IdSeq[k] : k \in 1..Len(IdSeq)}

\* the status labels the provider reports in a callback
Labels == {"sent", "delivered"}

Observers == 1..MaxObservers

\* ============================================================== server.js

VARIABLES
    messageStatuses,  \* the Map of server.js: identifier -> last status
    clients,          \* wss.clients with each socket's readyState
    sent,             \* what the last handler sent on each socket
    response,         \* the HTTP response of the last request
    ingested,         \* the status entries the last callback stored, in order
    lastWritten,      \* history: identifier -> status of its last notification
    observed          \* what each open observer holds: the snapshot it was
                      \* sent, overlaid with the updates it was sent since

serverVars == <<messageStatuses, clients, sent, response, ingested, lastWritten,
                observed>>

\* --- the state of App.tsx (its handlers follow the server's) --------------

VARIABLES
    credentials,        \* PHONE_NUMBER_ID && ACCESS_TOKEN are configured
    fileName,           \* a file name is shown (fileName !== null)
    isProcessing,       \* the uploaded file is being read
    showDetails,        \* the result list is shown
    extractedChallans,  \* the batch: the destinations, in order
    appStatuses,        \* messageStatuses of App.tsx: index -> state
    messageIds,         \* index -> provider identifier
    runs,               \* the bag of suspended sends and whole-batch loops
    wsState,            \* readyState of the socket of the current effect
    wsIds,              \* messageIds as the socket's onmessage closure holds it
    appSocket,          \* the server's handle of that socket (0: none yet)
    wire,               \* the messages in flight to that socket
    issued              \* the identifiers the provider has handed out

\* the socket of the WebSocket effect
socketVars == <<wsState, wsIds, appSocket, wire>>

\* the batch and the file input
batchVars == <<fileName, isProcessing, showDetails, extractedChallans>>

clientVars == <<credentials, batchVars, appStatuses, messageIds, runs,
                socketVars, issued>>

vars == <<serverVars, clientVars>>

\* the HTTP response before any request
NoResponse == [code |-> 0, body |-> Absent]

\* --- JavaScript helpers --------------------------------------------------

\* a value is truthy unless it is undefined or the empty string
Truthy(v) == v \notin {Absent, ""}

\* Map.prototype.get
MapGet(m, k) == IF k \in DOMAIN m THEN m[k] ELSE Absent

\* Map.prototype.set
MapSet(m, k, v) ==
    [x \in DOMAIN m \cup {k} |-> IF x = k THEN v ELSE m[x]]

\* a property key is a string: an undefined key becomes "undefined"
ToPropertyKey(k) == IF k = Absent THEN "undefined" ELSE k

\* Object.fromEntries(map): the object with the map's entries, keys as strings
ObjectFromEntries(m) ==
    [p \in {ToPropertyKey(k) : k \in DOMAIN m} |->
        m[CHOOSE k \in DOMAIN m : ToPropertyKey(k) = p]]

\* JSON.stringify then JSON.parse of an object: a property whose value is
\* undefined is left out
JsonObject(o) == [p \in {q \in DOMAIN o : o[q] # Absent} |-> o[p]]

\* --- the messages of the real-time channel --------------------------------

\* the snapshot taken from an empty map
InitialMessageEmpty(m) ==
    [type |-> "initial",
     statuses |-> JsonObject(ObjectFromEntries([k \in {} |-> Absent]))]

\* line 30 of server.js, as the observer parses it
InitialMessage(m) ==
    [type |-> "initial", statuses |-> JsonObject(ObjectFromEntries(m))]

\* lines 43-47 of server.js, as the observer parses it: an undefined
\* messageId or status is left out and reads back as undefined
StatusUpdateMessage(messageId, status) ==
    [type |-> "status_update", messageId |-> messageId, status |-> status]

NoneSent == [c \in Observers |-> <<>>]

\* broadcastStatusUpdate without the readyState test
BroadcastToAll(out, messageId, status) ==
    [c \in Observers |->
        IF clients[c] # "none"
        THEN Append(out[c], StatusUpdateMessage(messageId, status))
        ELSE out[c]]

\* broadcastStatusUpdate: one send per socket of wss.clients that is OPEN
broadcastStatusUpdate(out, messageId, status) ==
    [c \in Observers |->
        IF clients[c] = "open"
        THEN Append(out[c], StatusUpdateMessage(messageId, status))
        ELSE out[c]]

\* --- callback envelopes ---------------------------------------------------

\* --- an observer of the real-time channel ---------------------------------

\* an observer that has been sent nothing
NotObserving == [started |-> FALSE, ok |-> TRUE, view |-> [k \in {} |-> Absent]]

\* The observer o after the messages msgs, in order: an initial message
\* replaces its view, a status_update sets view[messageId] = status; ok
\* records that the first message was the initial one and no later one was.
RECURSIVE Overlay(_, _)
Overlay(o, msgs) ==
    IF msgs = <<>> THEN o
    ELSE LET data == Head(msgs) IN
         Overlay(IF data.type = "initial"
                 THEN [started |-> TRUE, ok |-> o.ok /\ ~o.started,
                       view |-> data.statuses]
                 ELSE [started |-> o.started, ok |-> o.ok /\ o.started,
                       view |-> MapSet(o.view, ToPropertyKey(data.messageId),
                                       data.status)],
                 Tail(msgs))

\* the observers after a handler that leaves the sockets as cl and has sent
\* out; an observer whose socket is not open holds nothing
Observe(cl, out) ==
    [c \in Observers |->
        IF cl[c] = "open" THEN Overlay(observed[c], out[c]) ELSE NotObserving]

\* An optional object or array of the envelope: missing, or given with a value.
Missing == [given |-> FALSE]

Given(x) == [given |-> TRUE, val |-> x]

\* a status entry: an identifier with a label or with no status property,
\* or an entry with neither property
StatusEntries == [id : Ids, status : Labels \cup {Absent}] \cup
                 {[id |-> Absent, status |-> Absent]}

StatusArrays == UNION {[1..n -> StatusEntries] : n \in 0..MaxStatuses}

\* change.value: missing; a status callback; an inbound-message callback;
\* or one whose messages property is not an array
Values == {Missing} \cup
    {Given([statuses |-> s, messages |-> Absent]) :
        s \in {Missing} \cup {Given(a) : a \in StatusArrays}} \cup
    {Given([statuses |-> Missing, messages |-> m]) : m \in {"array", "object"}} \cup
    {Given([statuses |-> Given(a), messages |-> m]) :
        a \in {x \in StatusArrays : Len(x) = 1}, m \in {"array", "object"}}

\* one well-formed status notification
OneDelivered ==
    {Given([statuses |-> Given(<<[id |-> i, status |-> "delivered"]>>),
            messages |-> Absent]) : i \in Ids}

\* a change on another field carries a value the handler never reads
Changes == [field : {"messages"}, value : Values] \cup
           [field : {"account_update"}, value : OneDelivered]

\* entry.changes and body.entry: missing, empty or one element
ChangeArrays == {Missing, Given(<<>>)} \cup {Given(<<ch>>) : ch \in Changes}

EntryArrays == {Missing, Given(<<>>)} \cup
    {Given(<<[changes |-> cs]>>) : cs \in ChangeArrays}

Bodies == [object : {"whatsapp_business_account"}, entry : EntryArrays] \cup
    {[object |-> "page",
      entry |-> Given(<<[changes |-> Given(<<[field |-> "messages",
                                              value |-> v]>>)]>>)] :
        v \in OneDelivered}

\* --- POST /webhook --------------------------------------------------------

\* The state a run of the handler carries: the map, what was sent so far,
\* the status entries it stored (in order) and whether it threw.
HandlerState(m, out, done, threw) ==
    [map |-> m, out |-> out, done |-> done, threw |-> threw]

\* lines 98-109: value.statuses.forEach
RECURSIVE ForEachStatus(_, _)
ForEachStatus(h, statuses) ==
    IF h.threw \/ statuses = <<>> THEN h
    ELSE LET status == Head(statuses)
             messageId == status.id
             statusType == status.status
         IN ForEachStatus(
                HandlerState(MapSet(h.map, messageId, statusType),
                             broadcastStatusUpdate(h.out, messageId, statusType),
                             Append(h.done, status), FALSE),
                Tail(statuses))

\* lines 93-118: one change
OnChange(h, change) ==
    IF change.field # "messages" THEN h
    ELSE LET value == change.value IN
         IF ~value.given
         THEN [h EXCEPT !.threw = TRUE]    \* value.statuses of undefined
         ELSE LET h1 == IF value.val.statuses.given
                        THEN ForEachStatus(h, value.val.statuses.val) ELSE h
              IN IF value.val.messages = "object"
                 THEN [h1 EXCEPT !.threw = TRUE]   \* forEach is not a function
                 ELSE h1

\* lines 92-119: entry.changes?.forEach
RECURSIVE ForEachChange(_, _)
ForEachChange(h, changes) ==
    IF h.threw \/ changes = <<>> THEN h
    ELSE ForEachChange(OnChange(h, Head(changes)), Tail(changes))

\* lines 91-120: body.entry?.forEach
RECURSIVE ForEachEntry(_, _)
ForEachEntry(h, entry) ==
    IF h.threw \/ entry = <<>> THEN h
    ELSE LET changes == Head(entry).changes IN
         ForEachEntry(IF changes.given THEN ForEachChange(h, changes.val) ELSE h,
                      Tail(entry))

\* lines 88-129: the handler's run on a body
RunWebhook(body) ==
    LET h0 == HandlerState(messageStatuses, NoneSent, <<>>, FALSE) IN
    IF body.object = "whatsapp_business_account" /\ body.entry.given
    THEN ForEachEntry(h0, body.entry.val)
    ELSE h0

WebhookResponse(body, h) ==
    IF h.threw THEN [code |-> 500, body |-> "Internal Server Error"]
    ELSE IF body.object = "whatsapp_business_account"
         THEN [code |-> 200, body |-> "EVENT_RECEIVED"]
         ELSE [code |-> 404, body |-> "Not Found"]

\* history: the last status notified for each identifier, after the
\* notifications of done are added to w
RECURSIVE LastNotified(_, _)
LastNotified(w, done) ==
    IF done = <<>> THEN w
    ELSE LastNotified(
             [x \in DOMAIN w \cup {Head(done).id} |->
                 IF x = Head(done).id THEN Head(done).status ELSE w[x]],
             Tail(done))

\* lines 83-130: app.post('/webhook')
Webhook(body) ==
    LET h == RunWebhook(body) IN
    /\ messageStatuses' = h.map
    /\ sent' = h.out
    /\ ingested' = h.done
    /\ lastWritten' = LastNotified(lastWritten, h.done)
    /\ response' = WebhookResponse(body, h)
    /\ wire' = IF appSocket # 0 THEN wire \o h.out[appSocket] ELSE wire
    /\ UNCHANGED clients
    /\ observed' = Observe(clients', sent')
    /\ UNCHANGED <<credentials, batchVars, appStatuses, messageIds, runs,
                   wsState, wsIds, appSocket, issued>>

\* --- POST /webhook when client.send raises --------------------------------

\* lines 49-53 when client.send(message) raises for the sockets of bad:
\* wss.clients.forEach from socket c on; nothing catches inside the loop, so
\* the first raise ends it
RECURSIVE SendFrom(_, _, _, _)
SendFrom(c, out, message, bad) ==
    IF c > MaxObservers THEN [out |-> out, threw |-> FALSE]
    ELSE IF clients[c] # "open" THEN SendFrom(c + 1, out, message, bad)
    ELSE IF c \in bad THEN [out |-> out, threw |-> TRUE]
    ELSE SendFrom(c + 1, [out EXCEPT ![c] = Append(@, message)], message, bad)

\* lines 98-109 when a send may raise: the exception leaves
\* broadcastStatusUpdate and value.statuses.forEach
RECURSIVE ForEachStatusRaising(_, _, _)
ForEachStatusRaising(h, statuses, bad) ==
    IF h.threw \/ statuses = <<>> THEN h
    ELSE LET status == Head(statuses)
             b == SendFrom(1, h.out,
                           StatusUpdateMessage(status.id, status.status), bad)
         IN ForEachStatusRaising(
                HandlerState(MapSet(h.map, status.id, status.status),
                             b.out, Append(h.done, status), b.threw),
                Tail(statuses), bad)

\* the statuses arrays of well-formed status callbacks
NotificationArrays ==
    UNION {[1..n -> [id : Ids, status : Labels]] : n \in 1..MaxFaultStatuses}

\* lines 83-130 on a callback with one change whose value.statuses is
\* statuses, when client.send raises for the sockets of bad
WebhookRaising(statuses, bad) ==
    LET h == ForEachStatusRaising(
                 HandlerState(messageStatuses, NoneSent, <<>>, FALSE),
                 statuses, bad)
    IN
    /\ messageStatuses' = h.map
    /\ sent' = h.out
    /\ ingested' = h.done
    /\ lastWritten' = LastNotified(lastWritten, h.done)
    /\ response' = IF h.threw
                   THEN [code |-> 500, body |-> "Internal Server Error"]
                   ELSE [code |-> 200, body |-> "EVENT_RECEIVED"]
    /\ wire' = IF appSocket # 0 THEN wire \o h.out[appSocket] ELSE wire
    /\ UNCHANGED clients
    /\ observed' = Observe(clients', sent')
    /\ UNCHANGED <<credentials, batchVars, appStatuses, messageIds, runs,
                   wsState, wsIds, appSocket, issued>>

\* --- the real-time channel, server side ----------------------------------

\* lines 25-39: wss.on('connection'): the socket joins wss.clients, OPEN,
\* and is sent the snapshot
OnConnection(c) ==
    /\ clients[c] = "none"
    /\ clients' = [clients EXCEPT ![c] = "open"]
    /\ sent' = [NoneSent EXCEPT ![c] = <<InitialMessage(messageStatuses)>>]
    /\ ingested' = <<>>
    /\ observed' = Observe(clients', sent')
    /\ UNCHANGED <<messageStatuses, response, lastWritten>>

\* an observer other than the dashboard of this model connects
Connection(c) ==
    /\ OnConnection(c)
    /\ UNCHANGED clientVars

\* the peer starts the closing handshake or the transport fails: the socket
\* is still in wss.clients and its readyState is no longer OPEN
ObserverClosing(c) ==
    /\ clients[c] = "open" /\ c # appSocket
    /\ clients' = [clients EXCEPT ![c] = "closing"]
    /\ sent' = NoneSent
    /\ ingested' = <<>>
    /\ observed' = Observe(clients', sent')
    /\ UNCHANGED <<messageStatuses, response, lastWritten>>
    /\ UNCHANGED clientVars

\* lines 32-34: 'close': the socket has left wss.clients
ObserverClosed(c) ==
    /\ clients[c] = "closing"
    /\ clients' = [clients EXCEPT ![c] = "none"]
    /\ sent' = NoneSent
    /\ ingested' = <<>>
    /\ observed' = Observe(clients', sent')
    /\ UNCHANGED <<messageStatuses, response, lastWritten>>
    /\ UNCHANGED clientVars

\* --- GET /webhook ---------------------------------------------------------

\* line 10: the verify token the server is configured with
WEBHOOK_VERIFY_TOKEN == "your_verify_token_here"

\* lines 67-69: the query parameters of a verification request; a missing
\* parameter is undefined
Modes == {"subscribe", "unsubscribe", Absent}

Tokens == {WEBHOOK_VERIFY_TOKEN, "some_other_token", Absent}

Challenges == {"1158201444", Absent}

\* line 73 with the test of hub.mode left out
VerifiedByTokenOnly(mode, token) == token = WEBHOOK_VERIFY_TOKEN

\* line 73: the request is a valid verification
Verified(mode, token) == mode = "subscribe" /\ token = WEBHOOK_VERIFY_TOKEN

\* lines 66-80: app.get('/webhook')
Verification(mode, token, challenge) ==
    /\ response' = IF Verified(mode, token)
                   THEN [code |-> 200, body |-> challenge]
                   ELSE [code |-> 403, body |-> "Forbidden"]
    /\ sent' = NoneSent
    /\ ingested' = <<>>
    /\ UNCHANGED <<messageStatuses, clients, lastWritten>>
    /\ observed' = Observe(clients', sent')
    /\ UNCHANGED clientVars

\* --- the query interface --------------------------------------------------

\* lines 133-136: the body GET /api/status/:messageId answers with
StatusBody(messageId) ==
    LET status == MapGet(messageStatuses, messageId) IN
    [messageId |-> messageId,
     status |-> IF Truthy(status) THEN status ELSE "unknown"]

\* lines 139-142: the body GET /api/statuses answers with, as the caller
\* parses it
StatusesBody == JsonObject(ObjectFromEntries(messageStatuses))

ServerNext ==
    \/ \E body \in Bodies : Webhook(body)
    \/ \E mode \in Modes, token \in Tokens, challenge \in Challenges :
           Verification(mode, token, challenge)
    \/ \E c \in Observers : Connection(c)
    \/ \E c \in Observers : ObserverClosing(c)
    \/ \E c \in Observers : ObserverClosed(c)


\* ================================================================ App.tsx

\* the indices of a batch (zero-based, as in App.tsx)
Idx == 0..(MaxItems - 1)

\* line 16: type MessageStatus
MessageStatus == {"idle", "sending", "sent", "delivered", "read", "error"}

\* the status labels a status_update may carry
UpdateLabels == {"sent", "delivered", "read", "failed"}

NoStatuses == [i \in Idx |-> Absent]

NoIds == [i \in Idx |-> Absent]

\* lines 499, 110: messageStatuses[index] || 'idle'
StatusOf(i) == IF Truthy(appStatuses[i]) THEN appStatuses[i] ELSE "idle"

\* --- suspended activations ------------------------------------------------

\* A suspended activation of sendWhatsAppMessage(_, _, index): at "template"
\* it awaits the templated POST, at "text" the free-text POST.  n = 0 is a
\* call from a Send button; n > 0 is the call of a sendAllMessages loop over
\* n challans, at i = index.  At "delay" the loop awaits the pacing timer
\* after item index.
Run(pc, index, n) == [pc |-> pc, index |-> index, n |-> n]

One(r) == SetToBag({r})

\* the provider requests in flight
Requests == {r \in BagToSet(runs) : r.pc \in {"template", "text"}}

RequestsInFlight ==
    BagCardinality([r \in Requests |-> runs[r]])

\* the whole-batch loops that have started and not finished
Loops == {r \in BagToSet(runs) : r.n > 0}

LoopsRunning == BagCardinality([r \in Loops |-> runs[r]])

\* --- the WebSocket effect (lines 34-83) -----------------------------------

\* The effect depends on messageIds: every setMessageIds closes the socket
\* and opens a new one whose onmessage closes over the new messageIds.
EffectRerun(ids) ==
    /\ wsState' = "connecting"
    /\ wsIds' = ids
    /\ appSocket' = 0
    /\ wire' = <<>>

\* lines 39-41: ws.onopen, the server as the environment
WsOpen ==
    /\ wsState = "connecting"
    /\ wsState' = "open"
    /\ UNCHANGED <<credentials, batchVars, appStatuses, messageIds, runs,
                   wsIds, appSocket, wire, issued>>
    /\ UNCHANGED serverVars

\* lines 52-54: Object.entries(messageIds).find: the indices whose
\* identifier is messageId; find takes the first in key order
Matches(ids, messageId) ==
    {i \in Idx : ids[i] # Absent /\ ids[i] = messageId}

First(hits) == CHOOSE i \in hits : \A j \in hits : i <= j

\* ws.onmessage with the update written without the spread of prev
OnMessageNoSpread(data) ==
    IF data.type = "status_update" /\ Matches(wsIds, data.messageId) # {}
    THEN [NoStatuses EXCEPT ![First(Matches(wsIds, data.messageId))] = data.status]
    ELSE appStatuses

\* lines 43-70: ws.onmessage on a parsed message: the new messageStatuses
OnMessage(data) ==
    IF data.type = "status_update" /\ Matches(wsIds, data.messageId) # {}
    THEN [appStatuses EXCEPT ![First(Matches(wsIds, data.messageId))] = data.status]
    ELSE appStatuses

\* --- sendWhatsAppMessage (lines 237-317) ----------------------------------

\* what the provider answers to a POST: an error, an acceptance with an
\* identifier, or an acceptance whose body carries no messages[0].id
Answers == {[ok |-> FALSE, id |-> Absent], [ok |-> TRUE, id |-> Absent]} \cup
           {[ok |-> TRUE, id |-> m] : m \in Ids}

\* lines 339-342 without the test i < length - 1: the loop waits after the
\* last item too
AfterSendAlwaysDelay(r) ==
    IF r.n > 0
    THEN (runs (-) One(r)) (+) One(Run("delay", r.index, r.n))
    ELSE runs (-) One(r)

\* lines 335-343, after the awaited send of item r.index returns: the caller
\* is a Send button (nothing follows), or the loop, which waits for the
\* pacing delay unless the item was the last
AfterSend(r) ==
    IF r.n > 0 /\ r.index < r.n - 1
    THEN (runs (-) One(r)) (+) One(Run("delay", r.index, r.n))
    ELSE runs (-) One(r)

\* lines 270-277 and 303-310: the accepted send stores the identifier, when
\* the answer carries one, and marks the item sent
Accepted(r, answer) ==
    /\ IF Truthy(answer.id)
       THEN /\ messageIds' = [messageIds EXCEPT ![r.index] = answer.id]
            /\ EffectRerun(messageIds')
       ELSE UNCHANGED <<messageIds, socketVars>>
    /\ appStatuses' = [appStatuses EXCEPT ![r.index] = "sent"]
    /\ runs' = AfterSend(r)

\* the provider hands out an identifier once: the next of IdSeq
Fresh(answer) ==
    /\ answer.id # Absent =>
            /\ Cardinality(issued) < Len(IdSeq)
            /\ answer.id = IdSeq[Cardinality(issued) + 1]
    /\ issued' = IF answer.id # Absent THEN issued \cup {answer.id} ELSE issued

\* lines 247-282: the templated POST settles
TemplateSettled(r, answer) ==
    /\ BagIn(r, runs) /\ r.pc = "template"
    /\ Fresh(answer)
    /\ IF answer.ok
       THEN Accepted(r, answer)
       ELSE /\ runs' = (runs (-) One(r)) (+) One(Run("text", r.index, r.n))
            /\ UNCHANGED <<appStatuses, messageIds, socketVars>>
    /\ UNCHANGED <<credentials, batchVars>>
    /\ UNCHANGED serverVars

\* lines 284-315: the free-text POST settles
TextSettled(r, answer) ==
    /\ BagIn(r, runs) /\ r.pc = "text"
    /\ Fresh(answer)
    /\ IF answer.ok
       THEN Accepted(r, answer)
       ELSE /\ appStatuses' = [appStatuses EXCEPT ![r.index] = "error"]
            /\ runs' = AfterSend(r)
            /\ UNCHANGED <<messageIds, socketVars>>
    /\ UNCHANGED <<credentials, batchVars>>
    /\ UNCHANGED serverVars

\* lines 238-247: the call marks the item sending and issues the templated
\* POST; rs is the bag of the other activations
Dispatch(rs, index, n) ==
    /\ appStatuses' = [appStatuses EXCEPT ![index] = "sending"]
    /\ runs' = rs (+) One(Run("template", index, n))

\* line 518: the Send button of an item is disabled
SendDisabled(i) == StatusOf(i) \in {"sending", "sent", "delivered", "read"}

\* lines 515-518 and 237-247: a click on the Send / Retry button of item i
SendClick(i) ==
    /\ showDetails /\ i < Len(extractedChallans)
    /\ ~SendDisabled(i)
    /\ BagCardinality(runs) < MaxRuns
    /\ IF credentials
       THEN Dispatch(runs, i, 0)
       ELSE UNCHANGED <<appStatuses, runs>>
    /\ UNCHANGED <<credentials, batchVars, messageIds, socketVars, issued>>
    /\ UNCHANGED serverVars

\* --- sendAllMessages (lines 319-344) --------------------------------------

\* line 480: the Send All button is disabled
SendAllDisabled == \E i \in Idx : appStatuses[i] = "sending"

\* sendAllMessages without the confirm() of lines 330-332
SendAllClickUnconfirmed(confirmed) ==
    /\ showDetails /\ Len(extractedChallans) > 0
    /\ ~SendAllDisabled
    /\ BagCardinality(runs) < MaxRuns
    /\ IF Len(extractedChallans) = 0 \/ ~credentials
       THEN UNCHANGED <<appStatuses, runs>>
       ELSE Dispatch(runs, 0, Len(extractedChallans))
    /\ UNCHANGED <<credentials, batchVars, messageIds, socketVars, issued>>
    /\ UNCHANGED serverVars

\* lines 477-481 and 319-337: a click on Send All Messages; confirmed is the
\* operator's answer to confirm()
SendAllClick(confirmed) ==
    /\ showDetails /\ Len(extractedChallans) > 0
    /\ ~SendAllDisabled
    /\ BagCardinality(runs) < MaxRuns
    /\ IF Len(extractedChallans) = 0 \/ ~credentials \/ ~confirmed
       THEN UNCHANGED <<appStatuses, runs>>
       ELSE Dispatch(runs, 0, Len(extractedChallans))
    /\ UNCHANGED <<credentials, batchVars, messageIds, socketVars, issued>>
    /\ UNCHANGED serverVars

\* lines 335-341: the pacing delay after item r.index is over and the loop
\* calls sendWhatsAppMessage for the next item
PacingElapsed(r) ==
    /\ BagIn(r, runs) /\ r.pc = "delay"
    /\ Dispatch(runs (-) One(r), r.index + 1, r.n)
    /\ UNCHANGED <<credentials, batchVars, messageIds, socketVars, issued>>
    /\ UNCHANGED serverVars

\* --- the batch ------------------------------------------------------------

\* lines 346-367: a valid file is chosen: the batch and both records are
\* cleared and the file is read
handleFileUpload ==
    /\ ~isProcessing
    /\ fileName' = TRUE
    /\ isProcessing' = TRUE
    /\ extractedChallans' = <<>>
    /\ appStatuses' = NoStatuses
    /\ messageIds' = NoIds
    /\ EffectRerun(messageIds')
    /\ UNCHANGED <<credentials, showDetails, runs, issued>>
    /\ UNCHANGED serverVars

\* lines 369-410: the file is read: n challans carry a contact
FileRead(n) ==
    /\ isProcessing
    /\ extractedChallans' = [k \in 1..n |-> k - 1]
    /\ showDetails' = (showDetails \/ n > 0)
    /\ isProcessing' = FALSE
    /\ UNCHANGED <<credentials, fileName, appStatuses, messageIds, runs,
                   socketVars, issued>>
    /\ UNCHANGED serverVars

\* lines 402-410: reading the file fails
FileReadFailed ==
    /\ isProcessing
    /\ fileName' = FALSE
    /\ isProcessing' = FALSE
    /\ UNCHANGED <<credentials, showDetails, extractedChallans, appStatuses,
                   messageIds, runs, socketVars, issued>>
    /\ UNCHANGED serverVars

\* lines 413-429 and 450-460: a click on Remove
handleReset ==
    /\ fileName /\ ~isProcessing
    /\ fileName' = FALSE
    /\ isProcessing' = FALSE
    /\ extractedChallans' = <<>>
    /\ appStatuses' = NoStatuses
    /\ messageIds' = NoIds
    /\ EffectRerun(messageIds')
    /\ showDetails' = FALSE
    /\ UNCHANGED <<credentials, runs, issued>>
    /\ UNCHANGED serverVars

\* --- the dashboard alone, the server as its environment --------------------

\* a status_update of any identifier and label arrives on the open socket
StatusUpdateArrives(messageId, status) ==
    /\ wsState = "open"
    /\ appStatuses' = OnMessage(StatusUpdateMessage(messageId, status))
    /\ UNCHANGED <<credentials, batchVars, messageIds, runs, socketVars, issued>>
    /\ UNCHANGED serverVars

\* The state after both programs have started: the map is empty and no
\* observer is connected; the dashboard has rendered once, without a batch,
\* and its effect has created a socket that is not open yet.  The build has
\* the provider credentials configured, or it has not.
Init ==
    /\ messageStatuses = [k \in {} |-> Absent]
    /\ clients = [c \in Observers |-> "none"]
    /\ sent = NoneSent
    /\ response = NoResponse
    /\ ingested = <<>>
    /\ lastWritten = [k \in {} |-> Absent]
    /\ observed = [c \in Observers |-> NotObserving]
    /\ credentials \in BOOLEAN
    /\ fileName = FALSE
    /\ isProcessing = FALSE
    /\ showDetails = FALSE
    /\ extractedChallans = <<>>
    /\ appStatuses = NoStatuses
    /\ messageIds = NoIds
    /\ runs = EmptyBag
    /\ wsState = "connecting"
    /\ wsIds = NoIds
    /\ appSocket = 0
    /\ wire = <<>>
    /\ issued = {}

ClientNext ==
    \/ handleFileUpload
    \/ \E n \in 0..MaxItems : FileRead(n)
    \/ FileReadFailed
    \/ handleReset
    \/ \E i \in Idx : SendClick(i)
    \/ \E confirmed \in BOOLEAN : SendAllClick(confirmed)
    \/ \E r \in BagToSet(runs), answer \in Answers : TemplateSettled(r, answer)
    \/ \E r \in BagToSet(runs), answer \in Answers : TextSettled(r, answer)
    \/ \E r \in BagToSet(runs) : PacingElapsed(r)
    \/ WsOpen
    \/ \E messageId \in Ids, status \in UpdateLabels :
           StatusUpdateArrives(messageId, status)

\* --- the two programs together ----------------------------------------------

\* lines 25-30 of server.js and 39-41 of App.tsx: the server accepts the
\* socket of the dashboard's effect, sends it the snapshot, and the socket
\* opens
AppConnection(c) ==
    /\ wsState = "connecting"
    /\ OnConnection(c)
    /\ wsState' = "open"
    /\ appSocket' = c
    /\ wire' = sent'[c]
    /\ UNCHANGED <<credentials, batchVars, appStatuses, messageIds, runs,
                   wsIds, issued>>

\* lines 43-70 of App.tsx: the next message in flight reaches ws.onmessage
Receive ==
    /\ wsState = "open" /\ wire # <<>>
    /\ appStatuses' = OnMessage(Head(wire))
    /\ wire' = Tail(wire)
    /\ UNCHANGED <<credentials, batchVars, messageIds, runs, wsState, wsIds,
                   appSocket, issued>>
    /\ UNCHANGED serverVars

\* the callback body of one status notification
Notification(id, label) ==
    [object |-> "whatsapp_business_account",
     entry |-> Given(<<[changes |-> Given(<<
         [field |-> "messages",
          value |-> Given([statuses |-> Given(<<[id |-> id, status |-> label]>>),
                           messages |-> Absent])]>>)]>>)]

\* the identifiers the dashboard has recorded
Recorded == {messageIds[i] : i \in Idx} \ {Absent}

\* The provider reports on the messages of this dashboard, after it has
\* answered the send with their identifier.
\* The operator uploads one file and sends its items one by one.
SystemNext ==
    \/ handleFileUpload
    \/ \E n \in 1..MaxItems : FileRead(n)
    \/ \E i \in Idx : SendClick(i)
    \/ \E r \in BagToSet(runs), answer \in Answers : TemplateSettled(r, answer)
    \/ \E r \in BagToSet(runs), answer \in Answers : TextSettled(r, answer)
    \/ \E c \in Observers : AppConnection(c)
    \/ Receive
    \/ /\ Len(wire) < MaxWire
       /\ \E id \in Recorded, label \in Labels : Webhook(Notification(id, label))
    \/ \E c \in Observers : ObserverClosing(c)
    \/ \E c \in Observers : ObserverClosed(c)

SpecSystem ==
    /\ Init
    /\ [][SystemNext]_vars

\* --- the server alone, observers and the provider as its environment -------

Spec ==
    /\ Init
    /\ [][ServerNext]_vars

SpecClient ==
    /\ Init
    /\ [][ClientNext]_vars

\* --- the server alone when a send to an observer may raise -----------------

FaultNext ==
    \/ \E statuses \in NotificationArrays, bad \in SUBSET Observers :
           WebhookRaising(statuses, bad)
    \/ \E c \in Observers : Connection(c)
    \/ \E c \in Observers : ObserverClosing(c)
    \/ \E c \in Observers : ObserverClosed(c)

SpecFaults ==
    /\ Init
    /\ [][FaultNext]_vars

\* ================================================================ claims

\* C1 (last-write-wins store): GET /api/statuses answers with exactly the
\* identifiers ever notified, each with the status of its last notification;
\* GET /api/status/:id answers with that status for a notified identifier
\* and with "unknown" for one never notified.
C1_LastWriteWins ==
    /\ DOMAIN StatusesBody = {ToPropertyKey(k) : k \in DOMAIN lastWritten}
    /\ \A k \in DOMAIN lastWritten :
            StatusesBody[ToPropertyKey(k)] = lastWritten[k]
    /\ \A id \in Ids :
            StatusBody(id).status =
                IF id \in DOMAIN lastWritten THEN lastWritten[id] ELSE "unknown"

\* C2 (snapshot on join): the initial message an observer is sent holds
\* exactly the identifiers of the map at connect time, each with its status.
C2_SnapshotOnJoin ==
    \A c \in Observers :
        (sent[c] # <<>> /\ sent[c][1].type = "initial") =>
            /\ DOMAIN sent[c][1].statuses =
                   {ToPropertyKey(k) : k \in DOMAIN messageStatuses}
            /\ \A k \in DOMAIN messageStatuses :
                   sent[c][1].statuses[ToPropertyKey(k)] = messageStatuses[k]

\* the status_update messages among msgs
StatusUpdatesOf(msgs) == SelectSeq(msgs, LAMBDA m : m.type = "status_update")

\* C3 (broadcast reach): every status entry a callback stored was sent, as
\* one status_update with its identifier and status and in order, to every
\* socket that was OPEN, and nothing was sent to a socket that had left or
\* was not OPEN.
C3_BroadcastReach ==
    \A c \in Observers :
        StatusUpdatesOf(sent[c]) =
            IF clients[c] = "open"
            THEN [k \in 1..Len(ingested) |->
                    StatusUpdateMessage(ingested[k].id, ingested[k].status)]
            ELSE <<>>

\* a callback's status entry reached the open socket and neither the closing
\* one nor the one that has left
C3_Witness ==
    /\ ingested # <<>>
    /\ \E c1, c2 \in Observers :
        /\ clients[c1] = "open" /\ Len(sent[c1]) = Len(ingested)
        /\ clients[c2] # "open" /\ sent[c2] = <<>>

\* the dashboard is at rest: its socket is open, the snapshot and every
\* update sent to it have been received, and no send is in flight
Quiescent == wsState = "open" /\ wire = <<>> /\ runs = EmptyBag

\* C4 (eventual client consistency): once the dashboard is at rest, an item
\* whose recorded identifier the provider has reported on displays the last
\* status reported for that identifier, which is also what the query
\* endpoint answers.
C4_EventualConsistency ==
    Quiescent =>
        \A i \in Idx :
            (messageIds[i] # Absent /\ messageIds[i] \in DOMAIN messageStatuses) =>
                /\ StatusBody(messageIds[i]).status = messageStatuses[messageIds[i]]
                /\ StatusOf(i) = messageStatuses[messageIds[i]]

\* the number of template sends in flight for item i among the runs rs
TemplateSends(rs, i) ==
    BagCardinality([r \in {x \in BagToSet(rs) : x.pc = "template" /\ x.index = i}
                        |-> rs[r]])

\* this step starts a send for item i
SendStarted(i) == TemplateSends(runs', i) > TemplateSends(runs, i)

\* C5 (no duplicate dispatch): a send is started only for an item that
\* displays idle or error, never for one that is sending, sent, delivered or
\* read.
C5_NoDuplicateDispatch ==
    [][\A i \in Idx : SendStarted(i) => StatusOf(i) \in {"idle", "error"}]_vars

\* C6 (one request in flight): at most one outbound send request is in
\* flight at any time.
C6_OneRequestInFlight == RequestsInFlight <= 1

\* C7 (Send All not re-entrant): at most one whole-batch operation is
\* between its start and its finish, the pacing delays included.
C7_SendAllNotReentrant == LoopsRunning <= 1

\* C8 (fallback law): while the free-text fallback of an item is pending no
\* other item's send starts; a fallback answered with an identifier leaves
\* the item sent with that identifier recorded; a failed fallback leaves the
\* item in error with no identifier recorded.
C8_FallbackLaw ==
    [][\A r \in BagToSet(runs) :
          r.pc = "text" =>
              /\ \A j \in Idx \ {r.index} : ~SendStarted(j)
              /\ \A answer \in Answers :
                     TextSettled(r, answer) =>
                         IF answer.ok /\ answer.id # Absent
                         THEN /\ appStatuses'[r.index] = "sent"
                              /\ messageIds'[r.index] \in Ids
                         ELSE ~answer.ok =>
                                  /\ appStatuses'[r.index] = "error"
                                  /\ messageIds'[r.index] = Absent]_vars

\* this step selects a new file or resets the dashboard
BatchReplaced == handleFileUpload \/ handleReset

\* C9 (identifier bound once): an identifier recorded for an item is not
\* replaced or removed except by a new upload or a reset.
C9_IdentifierBoundOnce ==
    [][~BatchReplaced =>
          \A i \in Idx : messageIds[i] # Absent => messageIds'[i] = messageIds[i]]_vars

\* the forward transitions of an item's displayed state
Forward ==
    {<<"idle", "sending">>, <<"sending", "sent">>, <<"sending", "error">>,
     <<"error", "sending">>, <<"sent", "delivered">>, <<"sent", "read">>,
     <<"delivered", "read">>}

\* the state item i displays under the statuses st
Displayed(st, i) == IF Truthy(st[i]) THEN st[i] ELSE "idle"

\* C10 (forward-only lifecycle): within a batch every change of an item's
\* displayed state, by a dispatch or by a received status_update, is a
\* forward transition between two of the six documented states.
C10_ForwardOnly ==
    [][~BatchReplaced =>
          \A i \in Idx :
              \/ Displayed(appStatuses', i) = Displayed(appStatuses, i)
              \/ <<Displayed(appStatuses, i), Displayed(appStatuses', i)>> \in Forward]_vars

\* C11 (reconciliation): a received status_update whose identifier is
\* recorded for an index sets the state of exactly that index to the event's
\* state and leaves every other index alone; one whose identifier is not
\* recorded changes no state; in both cases the identifiers are unchanged.
C11_Reconciliation ==
    [][\A id \in Ids, st \in UpdateLabels :
          StatusUpdateArrives(id, st) =>
              /\ messageIds' = messageIds
              /\ IF \E i \in Idx : messageIds[i] = id
                 THEN \E i \in Idx :
                          /\ messageIds[i] = id
                          /\ appStatuses'[i] = st
                          /\ \A j \in Idx \ {i} : appStatuses'[j] = appStatuses[j]
                 ELSE appStatuses' = appStatuses]_vars

\* a status_update has moved one item to delivered while the other item,
\* sent under another identifier, still shows sent
C11_Witness ==
    \E i, j \in Idx :
        /\ i # j /\ messageIds[i] \in Ids /\ messageIds[j] \in Ids
        /\ appStatuses[i] = "delivered" /\ appStatuses[j] = "sent"

\* C12 (malformed callbacks are a no-op): no callback is answered with an
\* error response, and no status entry that lacks its id or its status is
\* stored or broadcast.
C12_MalformedNoOp ==
    /\ response.code # 500
    /\ \A k \in 1..Len(ingested) :
           ingested[k].id # Absent /\ ingested[k].status # Absent
    /\ \A c \in Observers : \A k \in 1..Len(sent[c]) :
           sent[c][k].type = "status_update" =>
               sent[c][k].messageId # Absent /\ sent[c][k].status # Absent
    /\ \A k \in DOMAIN messageStatuses :
           k # Absent /\ messageStatuses[k] # Absent

\* the body is of the recognised event type
Recognised(body) == body.object = "whatsapp_business_account"

\* the changes of the body, in order
ChangesOf(body) ==
    IF body.entry.given /\ body.entry.val # <<>> /\ body.entry.val[1].changes.given
    THEN body.entry.val[1].changes.val ELSE <<>>

\* the body carries a status notification: a change on field messages whose
\* value has a statuses array that is not empty
CarriesStatus(body) ==
    \E k \in 1..Len(ChangesOf(body)) :
        LET ch == ChangesOf(body)[k] IN
        /\ ch.field = "messages" /\ ch.value.given
        /\ ch.value.val.statuses.given /\ ch.value.val.statuses.val # <<>>

\* C13 (callback acknowledgement): a recognised envelope is answered 200
\* EVENT_RECEIVED and any other 404; an unrecognised envelope, a change on
\* another field and an inbound user message leave the map unchanged and
\* broadcast nothing.
C13_Acknowledgement ==
    [][\A body \in Bodies :
          Webhook(body) =>
              /\ response' = IF Recognised(body)
                             THEN [code |-> 200, body |-> "EVENT_RECEIVED"]
                             ELSE [code |-> 404, body |-> "Not Found"]
              /\ (~Recognised(body) \/ ~CarriesStatus(body)) =>
                     messageStatuses' = messageStatuses /\ sent' = NoneSent]_vars

\* C14 (observer faults are contained): when the send to an observer raises
\* during a callback, every other open observer is still sent every
\* status_update of the envelope, the map holds every notification of the
\* envelope, and every status entry of the envelope is processed.
C14_FaultContained ==
    [][\A statuses \in NotificationArrays, bad \in SUBSET Observers :
          WebhookRaising(statuses, bad) =>
              /\ ingested' = statuses
              /\ messageStatuses' = LastNotified(messageStatuses, statuses)
              /\ \A c \in Observers \ bad :
                     clients[c] = "open" =>
                         sent'[c] = [k \in 1..Len(statuses) |->
                             StatusUpdateMessage(statuses[k].id, statuses[k].status)]]_vars

\* this step is the return of the last send of the whole-batch loop r
LoopFinishes(r) ==
    /\ r.n > 0 /\ r.index = r.n - 1
    /\ \E answer \in Answers : TemplateSettled(r, answer) \/ TextSettled(r, answer)
    /\ LoopsRunning' < LoopsRunning

\* C15 (batch completes despite failures): a whole-batch loop over n items
\* goes on to the next index after every item but the last, whatever the
\* outcome of the item, and when it finishes no item of 0..n-1 displays idle
\* or sending.
C15_BatchCompletes ==
    [][\A r \in BagToSet(runs) :
          /\ (r.pc = "delay" /\ PacingElapsed(r)) => SendStarted(r.index + 1)
          /\ (r.n > 0 /\ r.index < r.n - 1 /\ r.pc # "delay") =>
                 \A answer \in Answers :
                     (TemplateSettled(r, answer) \/ TextSettled(r, answer)) =>
                         LoopsRunning' = LoopsRunning
          /\ LoopFinishes(r) =>
                 \A i \in 0..(r.n - 1) :
                     Displayed(appStatuses', i) \notin {"idle", "sending"}]_vars

\* the number of activations at pc for item i of loops over n items among rs
LoopRunsAt(rs, pc, i, n) ==
    BagCardinality([r \in {x \in BagToSet(rs) :
                              x.pc = pc /\ x.index = i /\ x.n = n} |-> rs[r]])

\* the sends (templated or fallback) in flight for item i of loops over n
LoopSendsAt(rs, i, n) ==
    LoopRunsAt(rs, "template", i, n) + LoopRunsAt(rs, "text", i, n)

\* C16 (pacing): within a whole-batch loop the send of item i+1 starts only
\* when the pacing timer armed after item i fires; the timer is armed only
\* when the send of item i, its fallback included, has returned; and no
\* timer is armed after the last item.
C16_Pacing ==
    [][\A n \in 1..MaxItems, i \in Idx :
          /\ (i > 0 /\ LoopRunsAt(runs', "template", i, n)
                          > LoopRunsAt(runs, "template", i, n)) =>
                 LoopRunsAt(runs', "delay", i - 1, n)
                     = LoopRunsAt(runs, "delay", i - 1, n) - 1
          /\ LoopRunsAt(runs', "delay", i, n) > LoopRunsAt(runs, "delay", i, n) =>
                 /\ i < n - 1
                 /\ LoopSendsAt(runs', i, n) = LoopSendsAt(runs, i, n) - 1]_vars

\* a loop over two items has waited after item 0, which failed, and is
\* sending item 1
C16_Witness ==
    /\ BagIn(Run("template", 1, 2), runs)
    /\ appStatuses[0] = "error"

BroadcastIds ==
    UNION {{sent[c][k].messageId :
                k \in {j \in 1..Len(sent[c]) : sent[c][j].type = "status_update"}} :
           c \in Observers}

\* C18 (store retention): every identifier a handler has just broadcast in a
\* status_update is in the map, is in the answer of GET /api/statuses, and
\* GET /api/status/:id answers with its recorded status; and no step removes
\* an identifier from the map.
C18_StoreRetention ==
    /\ [](\A id \in BroadcastIds :
             /\ id \in DOMAIN messageStatuses
             /\ ToPropertyKey(id) \in DOMAIN StatusesBody
             /\ StatusBody(id).status = messageStatuses[id])
    /\ [][DOMAIN messageStatuses \subseteq DOMAIN messageStatuses']_vars

\* C19 (whole-batch start guard): a click on Send All with an empty batch,
\* without credentials or with the confirmation declined starts no send and
\* changes no state and no identifier; a whole-batch loop starts only in a
\* confirmed click with credentials on a batch that is not empty.
C19_StartGuard ==
    [][/\ \A confirmed \in BOOLEAN :
              (/\ SendAllClick(confirmed)
               /\ (Len(extractedChallans) = 0 \/ ~credentials \/ ~confirmed)) =>
                  /\ runs' = runs
                  /\ appStatuses' = appStatuses
                  /\ messageIds' = messageIds
       /\ LoopsRunning' > LoopsRunning =>
              /\ SendAllClick(TRUE)
              /\ credentials /\ Len(extractedChallans) > 0]_vars

\* the Send All button of a batch of two is enabled in a build without
\* credentials, and nothing has been sent
C19_Witness ==
    /\ ~credentials
    /\ showDetails /\ Len(extractedChallans) = 2
    /\ ~SendAllDisabled
    /\ runs = EmptyBag /\ appStatuses = NoStatuses

\* C20 (verification handshake): a verification request is answered 200
\* with its challenge exactly when hub.mode is subscribe and the token is
\* the configured one, and 403 Forbidden otherwise; the map is unchanged
\* and nothing is sent to any observer.
C20_Handshake ==
    [][\A mode \in Modes, token \in Tokens, challenge \in Challenges :
          Verification(mode, token, challenge) =>
              /\ response' =
                     IF mode = "subscribe" /\ token = WEBHOOK_VERIFY_TOKEN
                     THEN [code |-> 200, body |-> challenge]
                     ELSE [code |-> 403, body |-> "Forbidden"]
              /\ messageStatuses' = messageStatuses
              /\ \A c \in Observers : sent'[c] = <<>>]_vars

\* a verification was answered with its challenge while the map holds a
\* status and an observer is open
C20_Witness ==
    /\ response = [code |-> 200, body |-> "1158201444"]
    /\ DOMAIN messageStatuses # {}
    /\ \E c \in Observers : clients[c] = "open"

\* C21 (sent implies identifier): every item that displays sent, delivered
\* or read has a provider identifier recorded at its index.
C21_SentImpliesIdentifier ==
    \A i \in Idx :
        StatusOf(i) \in {"sent", "delivered", "read"} => messageIds[i] # Absent

\* C22 (batch replacement isolation): an upload and a reset leave every item
\* idle with no identifier, the items of the batch that is read start idle
\* with no identifier, and while the batch is empty no send of the batch
\* before sets a state or an identifier.
C22_BatchIsolation ==
    /\ [](Len(extractedChallans) = 0 =>
             appStatuses = NoStatuses /\ messageIds = NoIds)
    /\ [][(BatchReplaced \/ \E n \in 0..MaxItems : FileRead(n)) =>
             appStatuses' = NoStatuses /\ messageIds' = NoIds]_vars

\* C23 (fault atomicity of ingestion): a callback answered 500 has written
\* no status entry to the map and has broadcast nothing.
C23_FaultAtomicity ==
    response.code = 500 =>
        /\ ingested = <<>>
        /\ \A c \in Observers : sent[c] = <<>>

====
